---- MODULE Spec2Model ----
(***************************************************************************)
(* Model of zim/notebook/index/__init__.py: the Index facade (connection,  *)
(* lock, per-file updates, placeholder, flush) and IndexUpdateIter (the    *)
(* check-and-update generator with its single commit at the end).          *)
(*                                                                         *)
(* The sqlite connection self._db is modelled by two values: db, what the  *)
(* connection sees (committed data plus its open transaction), and disk,   *)
(* the committed store.  db.commit() copies db to disk.                    *)
(*                                                                         *)
(* The indexers and the checker (files.py, pages.py, links.py, tags.py)    *)
(* are not part of this file; their effect on the tables is modelled from  *)
(* their documented contract.                                              *)
(***************************************************************************)
EXTENDS Integers, Sequences, FiniteSets, TLC

\* ------------------------------------------------------------------ bounds
\* number of facade calls made in one behaviour
MaxCalls == 2

\* ------------------------------------------------------- program constants
DB_VERSION == "0.7"
ROOT_ID == "ROOT"
STATUS_UPTODATE == "UPTODATE"
STATUS_NEED_UPDATE == "NEED_UPDATE"

\* ------------------------------------------------------------- universes
Threads == {"t1", "t2"}
\* paths relative to the layout root, in the order a tree walk visits them
PathOrder == <<"a", "b">>
Paths == {PathOrder[i] : i \in 1..Len(PathOrder)}
Kinds == {"File", "Folder", "Other"}
PageNames == {"P", "Q", "R"}
TableNames == {"zim_index", "files", "pages", "links", "tags"}
IndexerTables == {"files", "pages", "links", "tags"}

NoRow == [status |-> "none", ver |-> 0]
NoNode == [path |-> "-", kind |-> "-"]

\* an sqlite file with no tables at all (also what a new connection to a
\* missing file or to ":memory:" gives)
EmptyDB ==
  [format |-> "sqlite", tables |-> {}, zim_index |-> {},
   files |-> [p \in Paths |-> NoRow],
   pages |-> [n \in PageNames |-> "none"],
   links |-> {}]

\* ------------------------------------------------------------ PropertyStore
\* SELECT value FROM zim_index WHERE key=?  -> row[0] if row else None
get_property(d, key) ==
  IF d.format # "sqlite" THEN [exc |-> "DatabaseError", val |-> "None"]
  ELSE IF "zim_index" \notin d.tables THEN [exc |-> "OperationalError", val |-> "None"]
  ELSE LET rows == {r \in d.zim_index : r[1] = key}
       IN  [exc |-> "none",
            val |-> IF rows = {} THEN "None" ELSE (CHOOSE r \in rows : TRUE)[2]]

\* INSERT without OR REPLACE and without the DELETE: the old row stays
set_property_append(d, key, value) ==
  IF value = "None" THEN d
  ELSE [d EXCEPT !.zim_index = d.zim_index \cup {<<key, value>>}]

\* DELETE FROM zim_index WHERE key=?  /  INSERT OR REPLACE INTO zim_index
set_property(d, key, value) ==
  IF value = "None"
  THEN [d EXCEPT !.zim_index = {r \in d.zim_index : r[1] # key}]
  ELSE [d EXCEPT !.zim_index = {r \in d.zim_index : r[1] # key} \cup {<<key, value>>}]

\* SELECT * FROM files WHERE index_status=? ... row is None
is_uptodate(d) ==
  \A p \in Paths : d.files[p].status # STATUS_NEED_UPDATE

\* -------------------------------------------------------- ConnectionManager
\* IndexUpdateIter.__init__: each indexer creates its own table when missing
IndexUpdateIterInit(d) ==
  [d EXCEPT !.tables = d.tables \cup IndexerTables]

\* _db_init that recreates the property table without dropping the others
_db_init_keep_tables(d) ==
  IndexUpdateIterInit([d EXCEPT !.tables = d.tables \cup {"zim_index"},
                                !.zim_index = {<<"db_version", DB_VERSION>>}])

\* drop every table, recreate zim_index with the version row, construct the
\* indexers; the caller's commit follows
_db_init(d) ==
  LET dropped == [EmptyDB EXCEPT !.format = d.format]
      script  == [dropped EXCEPT !.tables = {"zim_index"},
                                 !.zim_index = {<<"db_version", DB_VERSION>>}]
  IN  IndexUpdateIterInit(script)

\* the outcome of _db_check on the store found at dbpath:
\*   "pass"   db_version is current
\*   "init"   version absent or different, or property table missing
\*   "raise"  DatabaseError branch: self.db.close() reads an attribute the
\*            Index never sets, the AttributeError leaves the constructor
_db_check(d) ==
  LET r == get_property(d, "db_version")
  IN  IF r.exc = "OperationalError" THEN "init"
      ELSE IF r.exc = "DatabaseError" THEN "raise"
      ELSE IF r.val = DB_VERSION THEN "pass"
      ELSE "init"

\* ------------------------------------------------------------------ seeds
\* caches and storage trees the program can meet at start-up
SeedFiles == [p \in Paths |-> [status |-> STATUS_UPTODATE, ver |-> 1]]
SeedPages == [n \in PageNames |-> IF n = "Q" THEN "real" ELSE "none"]

SeedValid ==
  [format |-> "sqlite", tables |-> TableNames,
   zim_index |-> {<<"db_version", DB_VERSION>>, <<"k", "v">>},
   files |-> SeedFiles, pages |-> SeedPages, links |-> {}]
SeedValidEmpty ==
  [format |-> "sqlite", tables |-> TableNames,
   zim_index |-> {<<"db_version", DB_VERSION>>},
   files |-> [p \in Paths |-> NoRow],
   pages |-> [n \in PageNames |-> "none"], links |-> {}]
\* page R has content and links to Q, which has none: Q is a placeholder
SeedLinked ==
  [SeedValid EXCEPT !.pages = [n \in PageNames |->
                                 IF n = "R" THEN "real"
                                 ELSE IF n = "Q" THEN "placeholder" ELSE "none"],
                    !.links = {<<"R", "Q">>}]
SeedStale == [SeedValid EXCEPT !.zim_index = {<<"db_version", "0.6">>, <<"k", "v">>}]
SeedNoVersion == [SeedValid EXCEPT !.zim_index = {<<"k", "v">>}]
SeedNoPropTable == [SeedValid EXCEPT !.tables = IndexerTables, !.zim_index = {}]
SeedCorrupt == [EmptyDB EXCEPT !.format = "garbage"]

DiskSeeds == {EmptyDB, SeedValid, SeedValidEmpty, SeedLinked, SeedStale, SeedNoVersion,
              SeedNoPropTable, SeedCorrupt}

Absent == [kind |-> "none", ver |-> 0]
StorageTree1 ==
  [p \in Paths |-> IF p = "a" THEN [kind |-> "File", ver |-> 1]
                              ELSE [kind |-> "Folder", ver |-> 1]]
StorageSeeds ==
  { StorageTree1,
    [p \in Paths |-> IF p = "a" THEN [kind |-> "File", ver |-> 2]
                                ELSE [kind |-> "Folder", ver |-> 2]],
    [p \in Paths |-> IF p = "a" THEN Absent
                                ELSE [kind |-> "Folder", ver |-> 1]],
    [p \in Paths |-> IF p = "a" THEN [kind |-> "Other", ver |-> 1]
                                ELSE Absent] }

\* ------------------------------------------- storage node (zim.newfs)
\* file.exists(): a node of this kind is present at the path
exists(node, fsv) == fsv[node.path].kind = node.kind

\* ---------------------------------------------- Files indexer (files.py)
files_update_file(d, p, fsv) ==
  [d EXCEPT !.files[p] = [status |-> STATUS_UPTODATE, ver |-> fsv[p].ver]]
files_delete_file(d, p) == [d EXCEPT !.files[p] = NoRow]
files_update_folder(d, p, fsv) ==
  [d EXCEPT !.files[p] = [status |-> STATUS_UPTODATE, ver |-> fsv[p].ver]]
files_delete_folder(d, p) == [d EXCEPT !.files[p] = NoRow]
files_interactive_add_file(d, p, fsv) ==
  [d EXCEPT !.files[p] = [status |-> STATUS_UPTODATE, ver |-> fsv[p].ver]]

\* positions in PathOrder of the rows flagged NEED_UPDATE
NeedUpdate(d) ==
  {i \in 1..Len(PathOrder) : d.files[PathOrder[i]].status = STATUS_NEED_UPDATE}
MinOf(S) == CHOOSE i \in S : \A j \in S : i <= j

\* one item of FilesIndexer.update_iter(): the first flagged row is brought
\* up to date, or deleted when its storage node is gone
files_update_iter_next(d, fsv) ==
  LET p == PathOrder[MinOf(NeedUpdate(d))]
  IN  IF fsv[p].kind = "none"
      THEN [d EXCEPT !.files[p] = NoRow]
      ELSE [d EXCEPT !.files[p] = [status |-> STATUS_UPTODATE, ver |-> fsv[p].ver]]

\* ------------------------------------------ FilesIndexChecker (files.py)
\* queue_check(file): the whole tree, or the subtree of one node
queue_check(file) ==
  IF file = NoNode THEN PathOrder ELSE <<file.path>>

\* one item of check_iter(): does the row of p disagree with the storage
check_out_of_date(d, p, fsv) ==
  IF d.files[p] = NoRow THEN fsv[p].kind # "none"
  ELSE fsv[p].kind = "none" \/ d.files[p].ver # fsv[p].ver

\* the check flags the row it found out of date
check_flag(d, p, fsv) ==
  IF check_out_of_date(d, p, fsv)
  THEN [d EXCEPT !.files[p] = [status |-> STATUS_NEED_UPDATE, ver |-> d.files[p].ver]]
  ELSE d

\* ------------------------------------- Pages and Links indexers
insert_link_placeholder(d, name) == [d EXCEPT !.pages[name] = "placeholder"]

\* removes the placeholder pages that no link points to any more
cleanup_placeholders(d) ==
  [d EXCEPT !.pages = [n \in PageNames |->
      IF d.pages[n] = "placeholder" /\ ~\E l \in d.links : l[2] = n
      THEN "none" ELSE d.pages[n]]]


\* ------------------------------------------------------------- state
VARIABLES
  obj,      \* the Index object: "unopened", "open", or "failed" (constructor raised)
  err,      \* the exception that left the constructor, "none" otherwise
  ctor,     \* events of the constructor, in order
  dbpath,   \* "file" or "memory"
  disk0,    \* the store found at dbpath when the Index is constructed
  disk,     \* the committed store
  db,       \* what the connection self._db sees: disk plus the open transaction
  fs,       \* the storage tree under layout.root
  lock,     \* self.lock, an RLock: owner and recursion count
  th,       \* per thread: position in the current facade call and its locals
  ncalls,   \* facade calls made so far
  dirty,    \* per files row: the iterator run whose uncommitted write it holds,
            \* "abandoned" once that run was dropped, "none" otherwise
  leaked    \* rows a commit took over from an abandoned iterator run

vars == <<obj, err, ctor, dbpath, disk0, disk, db, fs, lock, th, ncalls, dirty, leaked>>

NoGen == [mode |-> "none", phase |-> "start", queue |-> <<>>, ood |-> FALSE]

\* a thread outside any call.  Of the locals: trace is the list of events of
\* the call (indexer operations, commits, notifications), res the value a
\* reading operation returned, snap the view file_moved found when called
Idle ==
  [pc |-> "idle", op |-> "none", node |-> NoNode, node2 |-> NoNode,
   cont |-> "ret", row |-> FALSE, page |-> "-", key |-> "-", val |-> "-",
   after |-> "-", gen |-> NoGen, drive |-> "-", locked |-> FALSE,
   trace |-> <<>>, exc |-> "none", abandoned |-> FALSE, noop |-> FALSE,
   res |-> "-", solo |-> FALSE, snap |-> EmptyDB]

NoDirty == [p \in Paths |-> "none"]

\* rows of the files table that differ between two views
Written(d1, d2) == {p \in Paths : d1.files[p] # d2.files[p]}

\* dirty after a step changed db from d1 to d2: w is the thread when the
\* step belongs to an iterator run, "none" for the other operations
Mark(d1, d2, w) == [p \in Paths |-> IF p \in Written(d1, d2) THEN w ELSE dirty[p]]

Abandoned(dv) == {p \in Paths : dv[p] = "abandoned"}

Init ==
  /\ obj = "unopened"
  /\ err = "none"
  /\ ctor = <<>>
  /\ dbpath \in {"file", "memory"}
  /\ disk \in DiskSeeds
  /\ dbpath = "memory" => disk = EmptyDB
  /\ disk0 = disk
  /\ db = EmptyDB
  /\ fs \in StorageSeeds
  \* the stores that the constructor rebuilds or rejects all continue like
  \* the empty one, and the store with links differs from the plain one in
  \* its pages only: one storage tree is enough for them
  /\ (dbpath = "memory"
        \/ disk \in {SeedLinked, SeedStale, SeedNoVersion, SeedNoPropTable, SeedCorrupt})
        => fs = StorageTree1
  /\ lock = [owner |-> "none", count |-> 0]
  /\ th = [t \in Threads |-> Idle]
  /\ ncalls = 0
  /\ dirty = NoDirty
  /\ leaked = {}

\* ------------------------------------------------- Index.__init__
\* what _db_init does besides rewriting the tables, in order: it constructs
\* an IndexUpdateIter (whose constructor emits nothing) and commits
_db_init_events == <<"new:IndexUpdateIter", "commit">>
\* self.update_iter = IndexUpdateIter(self._db, self.layout)
update_iter_events == <<"new:IndexUpdateIter">>

\* new_connection, _db_check, IndexUpdateIter(...), connect('commit', on_commit)
Open ==
  /\ obj = "unopened"
  /\ LET c == _db_check(disk)
     IN  CASE c = "pass" ->
                /\ db' = IndexUpdateIterInit(disk)
                /\ ctor' = update_iter_events
                /\ UNCHANGED <<disk, err>>
                /\ obj' = "open"
           [] c = "init" ->
                /\ db' = IndexUpdateIterInit(_db_init(disk))
                /\ disk' = _db_init(disk)
                /\ ctor' = _db_init_events \o update_iter_events
                /\ obj' = "open"
                /\ UNCHANGED err
           [] c = "raise" ->
                /\ obj' = "failed"
                /\ err' = IF dbpath = "memory" THEN "AssertionError" ELSE "AttributeError"
                /\ UNCHANGED <<db, disk, ctor>>
  /\ UNCHANGED <<dbpath, disk0, fs, lock, th, ncalls, dirty, leaked>>


\* ------------------------------------------------- IndexUpdateIter
\* the end of a run that emits 'commit' without committing
iter_finish_no_commit(g, d, pre) ==
  [gen |-> [g EXCEPT !.phase = "finished"], db |-> d,
   ev |-> pre \o <<"emit:commit", "emit:changed">>]

\* self.db.commit(); self.emit('commit') -- with Index.on_commit connected
\* to 'commit', which emits 'changed'
iter_finish(g, d, pre) ==
  [gen |-> [g EXCEPT !.phase = "finished"], db |-> d,
   ev |-> pre \o <<"commit", "emit:commit", "emit:changed">>]

\* a check loop that never enters the update pass
check_next_never_update(g, d, fsv, pre) ==
  IF g.queue = <<>>
  THEN iter_finish(g, d, pre \o <<"check:end">>)
  ELSE LET p == Head(g.queue)
           o == check_out_of_date(d, p, fsv)
       IN  [gen |-> [g EXCEPT !.phase = "checked", !.queue = Tail(g.queue), !.ood = FALSE],
            db |-> check_flag(d, p, fsv),
            ev |-> pre \o <<IF o THEN "check:T" ELSE "check:F">>]

\* the next item of checker.check_iter(), up to the yield that follows it;
\* when the checker is exhausted the loop ends and the run commits
check_next(g, d, fsv, pre) ==
  IF g.queue = <<>>
  THEN iter_finish(g, d, pre \o <<"check:end">>)
  ELSE LET p == Head(g.queue)
           o == check_out_of_date(d, p, fsv)
       IN  [gen |-> [g EXCEPT !.phase = "checked", !.queue = Tail(g.queue), !.ood = o],
            db |-> check_flag(d, p, fsv),
            ev |-> pre \o <<IF o THEN "check:T" ELSE "check:F">>]

\* an update pass that commits after every item
update_next_commit_each(g, d, fsv, pre) ==
  IF NeedUpdate(d) # {}
  THEN [gen |-> [g EXCEPT !.phase = "updating"],
        db |-> files_update_iter_next(d, fsv),
        ev |-> pre \o <<"update", "commit">>]
  ELSE IF g.mode = "check" THEN check_next(g, d, fsv, pre)
  ELSE iter_finish(g, d, pre)

\* the next item of self.files.update_iter(), up to the yield that follows
\* it; when the pass is exhausted control goes back to the enclosing loop
\* (check_and_update_iter) or to the commit (__iter__, update)
update_next(g, d, fsv, pre) ==
  IF NeedUpdate(d) # {}
  THEN [gen |-> [g EXCEPT !.phase = "updating"],
        db |-> files_update_iter_next(d, fsv),
        ev |-> pre \o <<"update">>]
  ELSE IF g.mode = "check" THEN check_next(g, d, fsv, pre)
  ELSE iter_finish(g, d, pre)

\* check_and_update_iter that runs the update pass after every check result
check_and_update_iter_always_update(g, d, fsv) ==
  CASE g.phase = "start"    -> check_next(g, d, fsv, <<>>)
    [] g.phase = "checked"  -> update_next(g, d, fsv, <<"update_iter">>)
    [] g.phase = "updating" -> update_next(g, d, fsv, <<>>)

\* check_and_update_iter: resume the generator and run it to its next yield
\* or to its end
check_and_update_iter(g, d, fsv) ==
  CASE g.phase = "start"    -> check_next(g, d, fsv, <<>>)
    [] g.phase = "checked"  -> IF g.ood
                               THEN update_next(g, d, fsv, <<"update_iter">>)
                               ELSE check_next(g, d, fsv, <<>>)
    [] g.phase = "updating" -> update_next(g, d, fsv, <<>>)

\* __iter__ / update: only the update pass, then the commit
iter_update(g, d, fsv) ==
  CASE g.phase = "start"    -> update_next(g, d, fsv, <<"update_iter">>)
    [] g.phase = "updating" -> update_next(g, d, fsv, <<>>)

Resume(g, d, fsv) ==
  IF g.mode = "check" THEN check_and_update_iter(g, d, fsv) ELSE iter_update(g, d, fsv)

NewGen(mode, file) ==
  [mode |-> mode, phase |-> "start",
   queue |-> IF mode = "check" THEN queue_check(file) ELSE <<>>, ood |-> FALSE]

\* IndexUpdateIter.check_and_update / update: the generator driven to its
\* end in one go; the result is the connection's view and the events made
RECURSIVE Drive(_, _, _, _)
Drive(g, d, fsv, tr) ==
  IF g.phase = "finished" THEN [db |-> d, trace |-> tr]
  ELSE LET r == Resume(g, d, fsv)
       IN  Drive(r.gen, r.db, fsv, tr \o r.ev)

\* ------------------------------------------------- Index.update_file
\* a dispatch that treats a folder with a row like a file
Dispatch_folder_as_file(row, kind, ex) ==
  IF row
  THEN IF kind \in {"File", "Folder"} THEN (IF ex THEN "update_file" ELSE "delete_file")
       ELSE "TypeError"
  ELSE IF kind = "File" THEN "interactive_add_file"
       ELSE IF kind = "Folder" THEN "ValueError"
       ELSE "TypeError"

\* which indexer operation lines 190-210 select, or the exception they raise
Dispatch(row, kind, ex) ==
  IF row
  THEN IF kind = "File" THEN (IF ex THEN "update_file" ELSE "delete_file")
       ELSE IF kind = "Folder" THEN (IF ex THEN "update_folder" ELSE "delete_folder")
       ELSE "TypeError"
  ELSE IF kind = "File" THEN "interactive_add_file"
       ELSE IF kind = "Folder" THEN "ValueError"
       ELSE "TypeError"

IsRaise(x) == x \in {"TypeError", "ValueError"}

ApplyOp(name, d, p, fsv) ==
  CASE name = "update_file"          -> files_update_file(d, p, fsv)
    [] name = "delete_file"          -> files_delete_file(d, p)
    [] name = "update_folder"        -> files_update_folder(d, p, fsv)
    [] name = "delete_folder"        -> files_delete_folder(d, p)
    [] name = "interactive_add_file" -> files_interactive_add_file(d, p, fsv)

\* the no-op test with the negation of exists() lost
IsNoop_exists(row, ex) == ~row /\ ex

\* row is None and not file.exists()
IsNoop(row, ex) == ~row /\ ~ex


\* ------------------------------------------------- thread steps
\* the storage nodes the callers pass in
Nodes == {[path |-> "a", kind |-> "File"], [path |-> "b", kind |-> "Folder"],
          [path |-> "a", kind |-> "Other"]}
OtherPath(p) == CHOOSE q \in Paths : q # p

\* the threads are interchangeable: the one that makes the first call is t1
CanCall(t) ==
  /\ obj = "open"
  /\ th[t].pc \in {"idle", "done"}
  /\ ncalls < MaxCalls
  /\ ncalls = 0 => t = "t1"

\* solo, of a call in progress: no call of another thread was in progress
\* when this one began, and none has begun since
Resting(u) == th[u].pc \in {"idle", "done"}
Start(t, r) ==
  /\ CanCall(t)
  /\ th' = [u \in Threads |->
              IF u = t
              THEN [r EXCEPT !.solo = \A v \in Threads \ {t} : Resting(v)]
              ELSE [th[u] EXCEPT !.solo = FALSE]]
  /\ ncalls' = ncalls + 1
  /\ UNCHANGED <<obj, err, ctor, dbpath, disk0, disk, db, fs, lock, dirty, leaked>>

\* the locals of a call end with it: the view it found is dropped
Return(r) == IF r.pc = "done" THEN [r EXCEPT !.snap = EmptyDB] ELSE r

\* a step of thread t that touches only its own position and locals
Local(t, r) ==
  /\ th' = [th EXCEPT ![t] = Return(r)]
  /\ UNCHANGED <<obj, err, ctor, dbpath, disk0, disk, db, fs, lock, ncalls, dirty, leaked>>

\* a step of thread t that writes d through the connection, without commit
Write(t, r, d, w) ==
  /\ th' = [th EXCEPT ![t] = Return(r)]
  /\ db' = d
  /\ dirty' = Mark(db, d, w)
  /\ UNCHANGED <<obj, err, ctor, dbpath, disk0, disk, fs, lock, ncalls, leaked>>

\* a step of thread t that writes d (possibly db itself) and commits
\* (self._db.commit(): the whole open transaction of the connection)
WriteCommit(t, r, d, w) ==
  /\ th' = [th EXCEPT ![t] = Return(r)]
  /\ db' = d
  /\ disk' = d
  /\ leaked' = leaked \cup Abandoned(Mark(db, d, w))
  /\ dirty' = NoDirty
  /\ UNCHANGED <<obj, err, ctor, dbpath, disk0, fs, lock, ncalls>>

Emit(r, evs) == [r EXCEPT !.trace = r.trace \o evs]
Has(evs, e) == \E i \in 1..Len(evs) : evs[i] = e

\* ---- entry points
Call_update_file(t) ==
  \E n \in Nodes :
    Start(t, [Idle EXCEPT !.pc = "uf_lookup", !.op = "update_file", !.node = n])

Call_file_moved(t) ==
  \E n \in Nodes :
    Start(t, [Idle EXCEPT !.pc = "fm_dispatch", !.op = "file_moved", !.node = n,
                          !.node2 = [path |-> OtherPath(n.path), kind |-> n.kind],
                          !.snap = db])

\* the pages the callers touch: one that some cache holds with content or
\* as a linked placeholder, and one that no cache holds
TouchNames == {"P", "Q"}

Call_touch_current_page_placeholder(t) ==
  \E n \in TouchNames :
    Start(t, [Idle EXCEPT !.pc = "lock", !.after = "tp_body",
                          !.op = "touch_current_page_placeholder", !.page = n])

Call_check_and_update(t) ==
  Start(t, [Idle EXCEPT !.pc = "lock", !.after = "run", !.op = "check_and_update",
                        !.gen = NewGen("check", NoNode), !.drive = "eager"])

Call_check_and_update_iter(t) ==
  Start(t, [Idle EXCEPT !.pc = "run", !.op = "check_and_update_iter",
                        !.gen = NewGen("check", NoNode), !.drive = "lazy"])

Call_iter(t) ==
  Start(t, [Idle EXCEPT !.pc = "run", !.op = "__iter__",
                        !.gen = NewGen("plain", NoNode), !.drive = "lazy"])

Call_update(t) ==
  Start(t, [Idle EXCEPT !.pc = "run", !.op = "update",
                        !.gen = NewGen("plain", NoNode), !.drive = "eager"])

Call_flush(t) ==
  Start(t, [Idle EXCEPT !.pc = "lock", !.after = "fl_init", !.op = "flush"])

Call_flag_reindex(t) ==
  Start(t, [Idle EXCEPT !.pc = "lock", !.after = "fl_init", !.op = "flag_reindex"])

Call_set_property(t) ==
  \E v \in {"None", "w"} :
    Start(t, [Idle EXCEPT !.pc = "lock", !.after = "sp_exec", !.op = "set_property",
                          !.key = "k", !.val = v])

\* the keys the callers ask for: one that set_property writes and one that
\* is never set
ReadKeys == {"k", "zz"}

\* the store as a committing reader would see it
ReadView_committed == disk
\* what the reading operations query: self._db, the one connection of the
\* Index, with its open transaction
ReadView == db

\* get_property: one SELECT, no lock
Call_get_property(t) ==
  \E k \in ReadKeys :
    LET got == get_property(ReadView, k)
    IN  Start(t, [Idle EXCEPT !.pc = "done", !.op = "get_property", !.key = k,
                              !.res = got.val, !.exc = got.exc])

\* is_uptodate: one SELECT, no lock
Call_is_uptodate(t) ==
  Start(t, [Idle EXCEPT !.pc = "done", !.op = "is_uptodate",
                        !.res = IF is_uptodate(ReadView) THEN "True" ELSE "False"])

\* ---- with self.lock:
Acquire(t) ==
  /\ th[t].pc = "lock"
  /\ lock.owner \in {"none", t}
  /\ lock' = [owner |-> t, count |-> lock.count + 1]
  /\ th' = [th EXCEPT ![t] = [th[t] EXCEPT !.pc = th[t].after, !.locked = TRUE]]
  /\ UNCHANGED <<obj, err, ctor, dbpath, disk0, disk, db, fs, ncalls, dirty, leaked>>

Release(t) ==
  /\ th[t].pc = "unlock"
  /\ lock' = IF lock.count = 1 THEN [owner |-> "none", count |-> 0]
             ELSE [lock EXCEPT !.count = lock.count - 1]
  /\ th' = [th EXCEPT ![t] = [th[t] EXCEPT !.pc = "done", !.locked = FALSE]]
  /\ UNCHANGED <<obj, err, ctor, dbpath, disk0, disk, db, fs, ncalls, dirty, leaked>>

\* ---- update_file
\* a file_moved that returns after update_file(oldfile)
AfterUpdateFile_old_only(r) == [r EXCEPT !.pc = "done"]

\* where control goes when update_file returns: to the caller of the facade,
\* or to the second half of file_moved
AfterUpdateFile(r) ==
  IF r.cont = "fm_file"
  THEN [r EXCEPT !.pc = "uf_lookup", !.node = r.node2, !.node2 = r.node,
                 !.cont = "ret", !.row = FALSE]
  ELSE IF r.cont = "fm_folder"
  THEN [r EXCEPT !.pc = "run", !.gen = NewGen("check", r.node2),
                 !.drive = "eager", !.cont = "ret"]
  ELSE [r EXCEPT !.pc = "done"]

uf_lookup(t) ==
  /\ th[t].pc = "uf_lookup"
  /\ LET r   == th[t]
         row == db.files[r.node.path] # NoRow
     IN  IF IsNoop(row, exists(r.node, fs))
         THEN Local(t, AfterUpdateFile([r EXCEPT !.noop = (r.op = "update_file")]))
         ELSE Local(t, [r EXCEPT !.pc = "uf_op", !.row = row])

\* emit('start-update'), the dispatched indexer call, emit('finish-update')
uf_op(t) ==
  /\ th[t].pc = "uf_op"
  /\ LET r == Emit(th[t], <<"emit:start-update">>)
         x == Dispatch(r.row, r.node.kind, exists(r.node, fs))
     IN  IF IsRaise(x)
         THEN Local(t, [r EXCEPT !.pc = "done", !.exc = x])
         ELSE Write(t, Emit([r EXCEPT !.pc = "uf_commit"], <<x, "emit:finish-update">>),
                    ApplyOp(x, db, r.node.path, fs), "none")

\* update_file that commits without calling on_commit
uf_commit_silent(t) ==
  /\ th[t].pc = "uf_commit"
  /\ WriteCommit(t, AfterUpdateFile(Emit(th[t], <<"commit">>)), db, "none")

\* self._db.commit(); self.on_commit(None)
uf_commit(t) ==
  /\ th[t].pc = "uf_commit"
  /\ WriteCommit(t, AfterUpdateFile(Emit(th[t], <<"commit", "emit:changed">>)), db, "none")

\* ---- file_moved
fm_dispatch(t) ==
  /\ th[t].pc = "fm_dispatch"
  /\ LET r == th[t]
     IN  IF r.node.kind = "File"
         THEN Local(t, [r EXCEPT !.pc = "uf_lookup", !.cont = "fm_file"])
         ELSE IF r.node.kind = "Folder"
         THEN Local(t, [r EXCEPT !.pc = "uf_lookup", !.cont = "fm_folder"])
         ELSE Local(t, [r EXCEPT !.pc = "done", !.exc = "TypeError"])


\* ---- touch_current_page_placeholder (inside with self.lock)
\* DELETE FROM links WHERE source=ROOT_ID; cleanup_placeholders(None);
\* SELECT the page; when it is missing insert the placeholder and its anchor
\* the same without the DELETE of the edges whose source is the root
touch_keep_anchor(d, name) ==
  LET d2  == cleanup_placeholders(d)
      row == d2.pages[name] # "none"
      d3  == insert_link_placeholder(d2, name)
      d4  == [d3 EXCEPT !.links = d3.links \cup {<<ROOT_ID, name>>}]
  IN  [row |-> row, db |-> IF row THEN d2 ELSE d4]

\* the same without the clean-up of placeholders
touch_no_cleanup(d, name) ==
  LET d1  == [d EXCEPT !.links = {l \in d.links : l[1] # ROOT_ID}]
      row == d1.pages[name] # "none"
      d3  == insert_link_placeholder(d1, name)
      d4  == [d3 EXCEPT !.links = d3.links \cup {<<ROOT_ID, name>>}]
  IN  [row |-> row, db |-> IF row THEN d1 ELSE d4]

\* the statements of touch_current_page_placeholder before its commit
touch(d, name) ==
  LET d1  == [d EXCEPT !.links = {l \in d.links : l[1] # ROOT_ID}]
      d2  == cleanup_placeholders(d1)
      row == d2.pages[name] # "none"
      d3  == insert_link_placeholder(d2, name)
      d4  == [d3 EXCEPT !.links = d3.links \cup {<<ROOT_ID, name>>}]
  IN  [row |-> row, db |-> IF row THEN d2 ELSE d4]

tp_body(t) ==
  /\ th[t].pc = "tp_body"
  /\ LET res == touch(db, th[t].page)
     IN  Write(t, [th[t] EXCEPT !.pc = "tp_commit", !.row = res.row], res.db, "none")

\* self._db.commit(); self.emit('changed')
tp_commit(t) ==
  /\ th[t].pc = "tp_commit"
  /\ WriteCommit(t, Emit([th[t] EXCEPT !.pc = "unlock"], <<"commit", "emit:changed">>),
                 db, "none")

\* flush: with self.lock: self._db_init()
flush(d) == [db |-> _db_init(d), ev |-> _db_init_events]

\* a reindex that keeps the rows and flags them for the next update
flag_reindex_soft(d) ==
  [db |-> [d EXCEPT !.files = [p \in Paths |->
                      IF d.files[p] = NoRow THEN NoRow
                      ELSE [d.files[p] EXCEPT !.status = STATUS_NEED_UPDATE]]],
   ev |-> <<"commit">>]

\* flag_reindex: self.flush()
flag_reindex(d) == flush(d)

\* ---- flush / flag_reindex (inside with self.lock): _db_init and its commit
fl_init(t) ==
  /\ th[t].pc = "fl_init"
  /\ LET res == IF th[t].op = "flag_reindex" THEN flag_reindex(db) ELSE flush(db)
     IN  /\ th' = [th EXCEPT ![t] = Emit([th[t] EXCEPT !.pc = "unlock"], res.ev)]
         /\ db' = res.db
         /\ disk' = res.db
  /\ dirty' = NoDirty
  /\ UNCHANGED <<obj, err, ctor, dbpath, disk0, fs, lock, ncalls, leaked>>

\* ---- set_property (inside with self.lock)
sp_exec(t) ==
  /\ th[t].pc = "sp_exec"
  /\ Write(t, [th[t] EXCEPT !.pc = "unlock"],
           set_property(db, th[t].key, th[t].val), "none")

\* ---- driving an update generator
\* one next() on the generator: it runs to its next yield, or to its end,
\* where it commits and emits 'commit'
Pull(t) ==
  /\ th[t].pc = "run"
  /\ LET r   == th[t]
         res == Resume(r.gen, db, fs)
         nxt == IF res.gen.phase # "finished" THEN "run"
                ELSE IF r.locked THEN "unlock" ELSE "done"
         r2  == Emit([r EXCEPT !.pc = nxt, !.gen = res.gen], res.ev)
     IN  IF Has(res.ev, "commit")
         THEN WriteCommit(t, r2, res.db, t)
         ELSE Write(t, r2, res.db, t)

\* the caller of check_and_update_iter / __iter__ stops pulling after some
\* markers: the generator stays suspended at its yield and is dropped
Abandon(t) ==
  /\ th[t].pc = "run"
  /\ th[t].drive = "lazy"
  /\ th[t].gen.phase \in {"checked", "updating"}
  /\ th' = [th EXCEPT ![t] = [th[t] EXCEPT !.pc = "done", !.abandoned = TRUE]]
  /\ dirty' = [p \in Paths |-> IF dirty[p] = t THEN "abandoned" ELSE dirty[p]]
  /\ UNCHANGED <<obj, err, ctor, dbpath, disk0, disk, db, fs, lock, ncalls, leaked>>

Next ==
  \/ Open
  \/ \E t \in Threads :
       \/ Call_update_file(t)
       \/ Call_file_moved(t)
       \/ Call_touch_current_page_placeholder(t)
       \/ Call_check_and_update(t)
       \/ Call_check_and_update_iter(t)
       \/ Call_iter(t)
       \/ Call_update(t)
       \/ Call_flush(t)
       \/ Call_flag_reindex(t)
       \/ Call_set_property(t)
       \/ Call_get_property(t)
       \/ Call_is_uptodate(t)
       \/ Acquire(t)
       \/ Release(t)
       \/ uf_lookup(t)
       \/ uf_op(t)
       \/ uf_commit(t)
       \/ fm_dispatch(t)
       \/ tp_body(t)
       \/ tp_commit(t)
       \/ fl_init(t)
       \/ sp_exec(t)
       \/ Pull(t)
       \/ Abandon(t)
Spec == Init /\ [][Next]_vars


\* =================================================================== claims
Count(seq, e) == Cardinality({i \in 1..Len(seq) : seq[i] = e})
IterOps == {"check_and_update_iter", "check_and_update", "update", "__iter__"}
CheckOps == {"check_and_update_iter", "check_and_update"}
IndexerOps == {"update_file", "delete_file", "update_folder", "delete_folder",
               "interactive_add_file"}
Markers == {"check:T", "check:F", "check:end", "update_iter", "update"}

\* the committed store right after the constructor
StoreAfterOpen == IF _db_check(disk0) = "init" THEN SeedValidEmpty ELSE disk0

\* ---------------------------------------------------------------- C1
C1_NoCommitBeforeEnd ==
  \A t \in Threads :
    (th[t].op = "check_and_update_iter" /\ th[t].gen.phase # "finished") =>
      /\ ~Has(th[t].trace, "commit")
      /\ ~Has(th[t].trace, "emit:commit")
      /\ ~Has(th[t].trace, "emit:changed")
      /\ (ncalls = 1 => disk = StoreAfterOpen)

C1_PullKeepsStore ==
  \A t \in Threads :
    (/\ th[t].op = "check_and_update_iter"
     /\ th[t].pc = "run"
     /\ th'[t] # th[t]
     /\ th'[t].gen.phase # "finished") => disk' = disk

\* C1: a check_and_update_iter run that is not driven to its end (the caller
\* stops pulling after some markers) has made no commit and emitted neither
\* 'commit' nor 'changed'; none of its pulls, nor the abandonment, changes the
\* committed store, and when no other call ran meanwhile the committed store
\* is the one found before the call.
C1_CancellationSafety ==
  []C1_NoCommitBeforeEnd /\ [][C1_PullKeepsStore]_vars

\* a run abandoned after some markers, with uncommitted writes pending
C1_Witness ==
  \E t \in Threads :
    /\ th[t].op = "check_and_update_iter"
    /\ th[t].abandoned
    /\ Len(th[t].trace) >= 1
    /\ db # disk

\* ---------------------------------------------------------------- C2
\* C2: the rows written by an abandoned check_and_update_iter run never
\* become part of the committed store through a later operation.
C2_AbandonedRunDiscarded == leaked = {}

\* ---------------------------------------------------------------- C3
\* the operations the lock is claimed to guard
LockedOps == {"update_file", "file_moved", "touch_current_page_placeholder", "flush",
              "set_property", "check_and_update", "check_and_update_iter"}
\* positions from which the thread's next step writes, commits or notifies
WritePcs == {"uf_op", "uf_commit", "tp_body", "tp_commit", "fl_init", "sp_exec", "run"}
\* the thread has written and has its commit still to do
MidCall(t) ==
  \/ th[t].pc \in {"uf_commit", "tp_commit"}
  \/ th[t].pc = "run" /\ th[t].gen.phase # "start"

\* C3: every mutation, commit and notification of a facade call happens
\* while its thread holds the Index lock, so the mutating steps of two calls
\* from different threads never interleave.
C3_OneWriter ==
  /\ \A t \in Threads :
       (th[t].op \in LockedOps /\ th[t].pc \in WritePcs) => lock.owner = t
  /\ \A t, u \in Threads :
       (t # u /\ th[t].op \in LockedOps /\ th[u].op \in LockedOps /\ MidCall(t))
          => ~MidCall(u)

\* ---------------------------------------------------------------- C4
\* C4: an update-iterator run driven to exhaustion has made exactly one
\* commit, after its last marker and directly followed by its one 'commit'
\* notification, also when nothing was out of date; a run that has not
\* reached its end has made none.
C4_OneCommitAtEnd ==
  \A t \in Threads :
    th[t].op \in IterOps =>
      LET tr == th[t].trace
          n  == Len(tr)
      IN  IF th[t].gen.phase = "finished"
          THEN /\ Count(tr, "commit") = 1
               /\ Count(tr, "emit:commit") = 1
               /\ n >= 3
               /\ tr[n-2] = "commit"
               /\ tr[n-1] = "emit:commit"
               /\ \A i \in 1..(n-3) : tr[i] \in Markers
          ELSE ~Has(tr, "commit") /\ ~Has(tr, "emit:commit")

\* a finished run in which no item was out of date
C4_Witness ==
  \E t \in Threads :
    /\ th[t].op = "check_and_update_iter"
    /\ th[t].gen.phase = "finished"
    /\ Has(th[t].trace, "check:F")
    /\ ~Has(th[t].trace, "check:T")

\* ---------------------------------------------------------------- C5
\* C5 (as claimed): no update step of the Files indexer happens before the
\* checker is exhausted, and a finished run has made exactly one update
\* pass when some check result was true and none otherwise.
C5_TwoPhase ==
  \A t \in Threads :
    th[t].op \in CheckOps =>
      LET tr == th[t].trace
      IN  /\ \A i \in 1..Len(tr) :
               tr[i] \in {"update_iter", "update"} =>
                 \E j \in 1..(i-1) : tr[j] = "check:end"
          /\ th[t].gen.phase = "finished" =>
               Count(tr, "update_iter") = IF Has(tr, "check:T") THEN 1 ELSE 0

\* C5 (amended): an update pass of the Files indexer is started directly
\* after each check result that is true and only then, before the next item
\* is checked; a finished run has made as many passes as it had true check
\* results, none when every result was false.
C5_UpdateAfterEachTrueCheck ==
  \A t \in Threads :
    th[t].op \in CheckOps =>
      LET tr == th[t].trace
      IN  /\ \A i \in 1..Len(tr) :
               tr[i] = "update_iter" => (i > 1 /\ tr[i-1] = "check:T")
          /\ \A i \in 1..Len(tr) :
               tr[i] = "update" => (i > 1 /\ tr[i-1] \in {"update_iter", "update"})
          /\ \A i \in 1..(Len(tr) - 1) :
               tr[i] = "check:T" => tr[i+1] = "update_iter"
          /\ th[t].gen.phase = "finished" =>
               Count(tr, "update_iter") = Count(tr, "check:T")

\* a finished run with two true check results: an update step precedes a check
C5_Witness ==
  \E t \in Threads :
    /\ th[t].op \in CheckOps
    /\ th[t].gen.phase = "finished"
    /\ Count(th[t].trace, "check:T") = 2
    /\ \E i, j \in 1..Len(th[t].trace) :
         i < j /\ th[t].trace[i] = "update" /\ th[t].trace[j] = "check:T"

\* ---------------------------------------------------------------- C6
\* C6: constructing an Index on a file that is not a cache completes without
\* raising and leaves a valid, empty cache holding db_version = '0.7'.
C6_CorruptionRecovery ==
  (obj # "unopened" /\ disk0.format = "garbage") =>
     (obj = "open" /\ err = "none" /\ disk = SeedValidEmpty)

\* ---------------------------------------------------------------- C7
NeedsRebuild(d) ==
  /\ d.format = "sqlite"
  /\ "zim_index" \notin d.tables \/ <<"db_version", DB_VERSION>> \notin d.zim_index
IsCurrent(d) ==
  /\ d.format = "sqlite"
  /\ "zim_index" \in d.tables
  /\ <<"db_version", DB_VERSION>> \in d.zim_index

\* C7: right after the constructor, a cache whose db_version was absent or
\* different, or whose property table was missing, has every table dropped
\* and recreated empty, the property table holding only db_version = '0.7',
\* and this is committed; a cache with the current version is untouched.
C7_VersionRebuild ==
  (obj = "open" /\ ncalls = 0) =>
    /\ NeedsRebuild(disk0) =>
         /\ disk.tables = TableNames
         /\ disk.zim_index = {<<"db_version", DB_VERSION>>}
         /\ \A p \in Paths : disk.files[p] = NoRow
         /\ \A n \in PageNames : disk.pages[n] = "none"
         /\ disk.links = {}
         /\ db = disk
         /\ ctor = <<"new:IndexUpdateIter", "commit", "new:IndexUpdateIter">>
    /\ IsCurrent(disk0) =>
         (disk = disk0 /\ db = disk0 /\ ctor = <<"new:IndexUpdateIter">>)

\* a cache of an older version, with rows, was opened and rebuilt
C7_Witness ==
  /\ obj = "open"
  /\ ncalls = 0
  /\ disk0 = SeedStale
  /\ disk # disk0

\* ---------------------------------------------------------------- C8
C8_NoopStep ==
  \A t \in Threads :
    (/\ th[t].op = "update_file"
     /\ th[t].pc = "uf_lookup"
     /\ th'[t].pc # "uf_lookup"
     /\ db.files[th[t].node.path] = NoRow
     /\ ~exists(th[t].node, fs)) =>
       /\ db' = db
       /\ disk' = disk
       /\ th'[t].pc = "done"
       /\ th'[t].trace = <<>>
       /\ th'[t].exc = "none"

\* C8: update_file of a node that has no row in files and does not exist in
\* storage returns at once: no marker, no indexer call, no commit, no
\* 'changed', and neither the connection's view nor the committed store
\* changes.
C8_NoopGuarantee == [][C8_NoopStep]_vars

\* an update_file call that took the no-op branch and returned
C8_Witness ==
  \E t \in Threads :
    th[t].op = "update_file" /\ th[t].noop /\ th[t].pc = "done"

\* ---------------------------------------------------------------- C9
\* C9: an update_file call that returned, was not the no-op case and did not
\* raise produced: 'start-update', one Files-indexer operation,
\* 'finish-update', one commit, one 'changed', in this order and nothing else.
C9_UpdateFileEventOrder ==
  \A t \in Threads :
    (th[t].op = "update_file" /\ th[t].pc = "done"
       /\ ~th[t].noop /\ th[t].exc = "none") =>
      \E x \in IndexerOps :
        th[t].trace = <<"emit:start-update", x, "emit:finish-update",
                        "commit", "emit:changed">>

\* an update_file call that reached its indexer operation and returned
C9_Witness ==
  \E t \in Threads :
    /\ th[t].op = "update_file"
    /\ th[t].pc = "done"
    /\ Has(th[t].trace, "emit:finish-update")

\* ---------------------------------------------------------------- C10
\* C10: every commit made by a facade call is followed by a 'changed'
\* notification before the call returns.
C10_ChangedAfterEveryCommit ==
  \A t \in Threads :
    th[t].pc = "done" =>
      \A i \in 1..Len(th[t].trace) :
        th[t].trace[i] = "commit" =>
          \E j \in (i+1)..Len(th[t].trace) : th[t].trace[j] = "emit:changed"

\* ---------------------------------------------------------------- C11
\* C11: 'new-update-iter' is emitted exactly once for every IndexUpdateIter
\* that is constructed, directly after its construction: by the constructor
\* of the Index and by each rebuild (_db_init on open, flush, flag_reindex).
C11_NewUpdateIterSignal ==
  LET Paired(tr) ==
        /\ Count(tr, "emit:new-update-iter") = Count(tr, "new:IndexUpdateIter")
        /\ \A i \in 1..Len(tr) :
             tr[i] = "new:IndexUpdateIter" =>
               (i < Len(tr) /\ tr[i+1] = "emit:new-update-iter")
  IN  /\ Paired(ctor)
      /\ \A t \in Threads : th[t].pc = "done" => Paired(th[t].trace)

\* ---------------------------------------------------------------- C12
\* the edges whose source is the root: the anchors of placeholders
Anchors(d) == {l \in d.links : l[1] = ROOT_ID}
HasBacklink(d, n) == \E l \in d.links : l[2] = n
TouchOp == "touch_current_page_placeholder"
\* thread t has run touch_current_page_placeholder up to its commit and
\* still holds the lock
Touched(t) == th[t].op = TouchOp /\ th[t].pc = "unlock"

\* C12 (as claimed): links never holds more than one edge whose source is
\* the root, and touch(P) followed by touch(Q), P and Q different and neither
\* a page with content, ends with exactly the anchor root->Q and with P's
\* placeholder removed when P has no other edge.
C12_PlaceholderExclusivity ==
  /\ Cardinality(Anchors(db)) <= 1
  /\ Cardinality(Anchors(disk)) <= 1
  /\ \A t, u \in Threads :
       (/\ Touched(t)
        /\ th[u].op = TouchOp /\ th[u].pc = "done"
        /\ th[u].page # th[t].page
        /\ db.pages[th[u].page] # "real"
        /\ db.pages[th[t].page] # "real") =>
          /\ Anchors(db) = {<<ROOT_ID, th[t].page>>}
          /\ ~HasBacklink(db, th[u].page) => db.pages[th[u].page] = "none"

\* C12 (amended): links never holds more than one edge whose source is the
\* root; a touch(Q) call leaves the anchor root->Q as the only such edge when
\* Q had no page row after the clean-up, and no such edge at all when Q had
\* one (a page with content, or a placeholder another page links to); every
\* placeholder left without an edge to it, the previous call's included, is
\* removed, and the result is committed.
C12_AnchorOnlyForNewPlaceholder ==
  /\ Cardinality(Anchors(db)) <= 1
  /\ Cardinality(Anchors(disk)) <= 1
  /\ \A t \in Threads :
       Touched(t) =>
         /\ Anchors(db) = IF th[t].row THEN {} ELSE {<<ROOT_ID, th[t].page>>}
         /\ db.pages[th[t].page] # "none"
         /\ \A n \in PageNames :
              db.pages[n] = "placeholder" => HasBacklink(db, n)
         /\ disk.links = db.links
         /\ disk.pages = db.pages

\* touch(P) then touch(Q), where Q is a placeholder that page R links to:
\* the second call removed P and its anchor and added no anchor for Q
C12_Witness ==
  \E t, u \in Threads :
    /\ Touched(t)
    /\ th[u].op = TouchOp /\ th[u].pc = "done"
    /\ th[u].page # th[t].page
    /\ disk0.pages[th[u].page] = "none"
    /\ db.pages[th[u].page] = "none"
    /\ db.pages[th[t].page] = "placeholder"
    /\ th[t].row
    /\ Anchors(db) = {}

\* ---------------------------------------------------------------- C13
PageNamesOf(d) == {n \in PageNames : d.pages[n] # "none"}

\* C13: after touch_current_page_placeholder(path) a page named path exists,
\* whether it was absent, a placeholder or a page with content before; the
\* call made one commit followed by one 'changed' and nothing else; and
\* calling it again with the same path leaves the same page names and the
\* same anchor edges.
C13_TouchIdempotent ==
  \A t \in Threads :
    Touched(t) =>
      LET again == touch(db, th[t].page).db
      IN  /\ db.pages[th[t].page] # "none"
          /\ th[t].trace = <<"commit", "emit:changed">>
          /\ again.pages[th[t].page] # "none"
          /\ PageNamesOf(again) = PageNamesOf(db)
          /\ Anchors(again) = Anchors(db)

\* the second of two calls for the same page, which was absent at first:
\* the page is a placeholder with its anchor
C13_Witness ==
  \E t, u \in Threads :
    /\ Touched(t)
    /\ th[u].op = TouchOp /\ th[u].pc = "done"
    /\ th[u].page = th[t].page
    /\ disk0.pages[th[t].page] = "none"
    /\ db.pages[th[t].page] = "placeholder"
    /\ Anchors(db) = {<<ROOT_ID, th[t].page>>}

\* ---------------------------------------------------------------- C14
PropKeys == ReadKeys \cup {"db_version"}
RowsOf(d, key) == {r \in d.zim_index : r[1] = key}

C14_State ==
  /\ \A key \in PropKeys :
       Cardinality(RowsOf(db, key)) <= 1 /\ Cardinality(RowsOf(disk, key)) <= 1
  /\ \A t \in Threads :
       /\ (th[t].op = "set_property" /\ th[t].pc = "unlock") =>
             get_property(db, th[t].key) = [exc |-> "none", val |-> th[t].val]
       /\ (th[t].op = "get_property" /\ th[t].key = "zz") =>
             (th[t].res = "None" /\ th[t].exc = "none")

C14_GetAfterSet ==
  \A t, u \in Threads :
    (/\ th[u].op = "set_property" /\ th[u].pc = "unlock"
     /\ th'[t] # th[t]
     /\ th'[t].op = "get_property"
     /\ th'[t].key = th[u].key) =>
       (th'[t].res = th[u].val /\ th'[t].exc = "none")

\* C14: after set_property(k, v) a get_property(k) returns v; a later
\* set_property(k, v2) replaces it, so zim_index never holds two rows for one
\* key; after set_property(k, None) the key is absent (None); and
\* get_property of a key that was never set returns None without raising.
C14_PropertyRoundTrip == []C14_State /\ [][C14_GetAfterSet]_vars

\* a get_property that returned the value a set_property call, still inside
\* its lock, had put in place of the one found at start-up
C14_Witness ==
  \E t, u \in Threads :
    /\ th[u].op = "set_property" /\ th[u].pc = "unlock" /\ th[u].val = "w"
    /\ <<"k", "v">> \in disk0.zim_index
    /\ th[t].op = "get_property" /\ th[t].key = "k" /\ th[t].res = "w"

\* ---------------------------------------------------------------- C15
\* thread t has driven check_and_update to its end, still holds the lock,
\* and no other call overlapped with it
FullUpdateDone(t) ==
  th[t].op = "check_and_update" /\ th[t].pc = "unlock" /\ th[t].solo

\* C15: when check_and_update has returned, is_uptodate is true and the
\* result is committed; a second check_and_update on the unchanged storage
\* gets no true check result, runs no update step and leaves the cache as
\* it is.
C15_FullUpdateIdempotent ==
  \A t \in Threads :
    FullUpdateDone(t) =>
      LET again == Drive(NewGen("check", NoNode), db, fs, <<>>)
      IN  /\ is_uptodate(db)
          /\ disk = db
          /\ ~Has(again.trace, "check:T")
          /\ ~Has(again.trace, "update_iter")
          /\ ~Has(again.trace, "update")
          /\ again.db = db

\* two check_and_update calls in a row on a cache that was out of date: the
\* first one updated, the second one found every item up to date
C15_Witness ==
  \E t, u \in Threads :
    /\ FullUpdateDone(t)
    /\ ncalls = 2
    /\ th[u].op = "check_and_update" /\ th[u].pc = "done"
    /\ Has(th[u].trace, "update")
    /\ Has(th[t].trace, "check:F")
    /\ ~Has(th[t].trace, "check:T")

\* ---------------------------------------------------------------- C16
Bool(b) == IF b THEN "True" ELSE "False"
\* thread t takes the step of a reading operation
ReadStep(t, op) == th'[t] # th[t] /\ th'[t].op = op

C16_ReadsSeeCommitted ==
  \A t \in Threads :
    /\ ReadStep(t, "get_property") =>
         th'[t].res = get_property(disk, th'[t].key).val
    /\ ReadStep(t, "is_uptodate") => th'[t].res = Bool(is_uptodate(disk))

\* C16 (as claimed): get_property and is_uptodate return what the last
\* committed state holds; a value written by set_property, or a NEED_UPDATE
\* flag written by a partly driven run, is not seen before a commit.
C16_CommitIsVisibilityBoundary == [][C16_ReadsSeeCommitted]_vars

C16_ReadsSeeConnection ==
  \A t \in Threads :
    /\ ReadStep(t, "get_property") =>
         th'[t].res = get_property(db, th'[t].key).val
    /\ ReadStep(t, "is_uptodate") => th'[t].res = Bool(is_uptodate(db))

\* C16 (amended): get_property and is_uptodate return what the Index's own
\* connection holds, its uncommitted writes included: a value written by
\* set_property, or a NEED_UPDATE flag written by a partly driven run, is
\* seen at once, before any commit.
C16_ReadsThroughOwnConnection == [][C16_ReadsSeeConnection]_vars

\* a get_property that returned the value set_property had written while
\* the committed store still held the old one
C16_Witness ==
  \E t \in Threads :
    /\ th[t].op = "get_property" /\ th[t].key = "k" /\ th[t].res = "w"
    /\ <<"k", "v">> \in disk.zim_index
    /\ <<"k", "w">> \notin disk.zim_index

\* ---------------------------------------------------------------- C17
\* thread t takes the step in which flush or flag_reindex rebuilds the cache
RebuildStep(t) == th[t].pc = "fl_init" /\ th'[t].pc # "fl_init"

C17_SameEffect ==
  \A t \in Threads :
    (RebuildStep(t) /\ th[t].op \in {"flush", "flag_reindex"}) =>
      /\ db' = SeedValidEmpty
      /\ disk' = SeedValidEmpty
      /\ th'[t].trace = <<"new:IndexUpdateIter", "commit">>
      /\ th'[t].pc = "unlock"
      /\ lock.owner = t

\* C17: from every state flag_reindex does what flush does: under the lock
\* it leaves the cache that _db_init builds (every table empty, properties
\* set before lost, only db_version = '0.7' left), makes the same single
\* commit and emits the same notifications, that is none.
C17_FlagReindexIsFlush == [][C17_SameEffect]_vars

\* a flush and a flag_reindex have both returned, with the same events, and
\* the property and the rows found at start-up are gone
C17_Witness ==
  \E t, u \in Threads :
    /\ th[t].op = "flag_reindex" /\ th[t].pc = "done"
    /\ th[u].op = "flush" /\ th[u].pc = "done"
    /\ th[t].trace = th[u].trace
    /\ Has(th[t].trace, "commit")
    /\ <<"k", "v">> \in disk0.zim_index
    /\ disk0.files # SeedValidEmpty.files
    /\ disk = SeedValidEmpty

\* ---------------------------------------------------------------- C18
\* the indexer operations in the events of a call, in order
RECURSIVE OpsIn(_)
OpsIn(tr) ==
  IF tr = <<>> THEN <<>>
  ELSE (IF Head(tr) \in IndexerOps THEN <<Head(tr)>> ELSE <<>>) \o OpsIn(Tail(tr))

\* an update_file call made by the caller itself has ended
UpdateFileEnded(t) == th[t].op = "update_file" /\ th[t].pc = "done"

\* the outcome of the call of thread t is x: "noop", an exception, or the
\* one indexer operation
Outcome(t, x) ==
  IF x = "noop"
  THEN th[t].noop /\ th[t].exc = "none" /\ OpsIn(th[t].trace) = <<>>
  ELSE IF IsRaise(x)
  THEN ~th[t].noop /\ th[t].exc = x /\ OpsIn(th[t].trace) = <<>>
  ELSE ~th[t].noop /\ th[t].exc = "none" /\ OpsIn(th[t].trace) = <<x>>

\* the table of the claim, with the no-op of a File or Folder that has no
\* row and does not exist
TableClaimed(row, kind, ex) ==
  IF kind \notin {"File", "Folder"} THEN "TypeError"
  ELSE IF ~row /\ ~ex THEN "noop"
  ELSE IF row /\ kind = "File" THEN (IF ex THEN "update_file" ELSE "delete_file")
  ELSE IF row /\ kind = "Folder" THEN (IF ex THEN "update_folder" ELSE "delete_folder")
  ELSE IF kind = "File" THEN "interactive_add_file"
  ELSE "ValueError"

\* the same table with the no-op first, whatever the kind
TableAmended(row, kind, ex) ==
  IF ~row /\ ~ex THEN "noop"
  ELSE IF kind \notin {"File", "Folder"} THEN "TypeError"
  ELSE IF row /\ kind = "File" THEN (IF ex THEN "update_file" ELSE "delete_file")
  ELSE IF row /\ kind = "Folder" THEN (IF ex THEN "update_folder" ELSE "delete_folder")
  ELSE IF kind = "File" THEN "interactive_add_file"
  ELSE "ValueError"

\* C18 (as claimed): update_file selects by (row present, node kind, node
\* exists): row+File -> update_file / delete_file, row+Folder ->
\* update_folder / delete_folder, no row+File+exists -> interactive_add_file,
\* no row+Folder+exists -> ValueError, a node that is neither File nor
\* Folder -> TypeError; a call that neither raises nor is the no-op makes
\* exactly one indexer operation.
C18_DispatchTable ==
  \A t \in Threads :
    UpdateFileEnded(t) =>
      Outcome(t, TableClaimed(th[t].row, th[t].node.kind, exists(th[t].node, fs)))

\* C18 (amended): the same table, except that a node that is neither File
\* nor Folder raises TypeError only when it has a row or exists; with no row
\* and a missing node the call is the no-op, whatever the kind.
C18_DispatchTableNoopFirst ==
  \A t \in Threads :
    UpdateFileEnded(t) =>
      Outcome(t, TableAmended(th[t].row, th[t].node.kind, exists(th[t].node, fs)))

\* update_file of a node that is neither File nor Folder, has no row and
\* does not exist, returned without raising
C18_Witness ==
  \E t \in Threads :
    /\ UpdateFileEnded(t)
    /\ th[t].node.kind = "Other"
    /\ th[t].noop
    /\ th[t].exc = "none"

\* ---------------------------------------------------------------- C19
\* update_file(node) as one call on the view d: the view it leaves, its
\* events and the exception that ends it
UpdateFileCall(d, node, fsv) ==
  LET row == d.files[node.path] # NoRow
      ex  == exists(node, fsv)
      x   == Dispatch(row, node.kind, ex)
  IN  IF IsNoop(row, ex) THEN [db |-> d, ev |-> <<>>, exc |-> "none"]
      ELSE IF IsRaise(x) THEN [db |-> d, ev |-> <<"emit:start-update">>, exc |-> x]
      ELSE [db |-> ApplyOp(x, d, node.path, fsv),
            ev |-> <<"emit:start-update", x, "emit:finish-update",
                     "commit", "emit:changed">>,
            exc |-> "none"]

\* the two-step definition of file_moved(old, new)
TwoStep(d, old, new, fsv) ==
  LET a == UpdateFileCall(d, old, fsv)
  IN  IF a.exc # "none" THEN a
      ELSE IF old.kind = "File"
      THEN LET b == UpdateFileCall(a.db, new, fsv)
           IN  [db |-> b.db, ev |-> a.ev \o b.ev, exc |-> b.exc]
      ELSE LET r == Drive(NewGen("check", new), a.db, fsv, <<>>)
           IN  [db |-> r.db, ev |-> a.ev \o r.trace, exc |-> "none"]

\* the arguments of the file_moved call of thread t: in the second
\* update_file of a moved File the thread works on new and keeps old aside
SecondHalf(t) ==
  th[t].node.kind = "File" /\ th[t].cont = "ret" /\ th[t].pc # "fm_dispatch"
MovedOld(t) == IF SecondHalf(t) THEN th[t].node2 ELSE th[t].node
MovedNew(t) == IF SecondHalf(t) THEN th[t].node ELSE th[t].node2

\* thread t is in a file_moved call for a File or a Folder that no other
\* call overlaps with; snap is the view the call found
InFileMoved(t) ==
  /\ th[t].op = "file_moved"
  /\ th[t].node.kind \in {"File", "Folder"}
  /\ th[t].pc # "done"
  /\ th[t].solo

C19_Return ==
  \A t \in Threads :
    (InFileMoved(t) /\ th'[t].pc = "done") =>
      LET e == TwoStep(th[t].snap, MovedOld(t), MovedNew(t), fs)
      IN  /\ db' = e.db
          /\ th'[t].trace = e.ev
          /\ th'[t].exc = e.exc
          /\ Has(e.ev, "commit") => disk' = e.db
          /\ th[t].node.kind = "Folder" /\ e.exc = "none" =>
                /\ Count(e.ev, "emit:commit") = 1
                /\ Count(e.ev, "commit") = Count(e.ev, "emit:changed")
                /\ Len(e.ev) >= 3
                /\ SubSeq(e.ev, Len(e.ev) - 2, Len(e.ev))
                      = <<"commit", "emit:commit", "emit:changed">>

\* C19: a file_moved(old, new) that no other call overlaps with returns with
\* the cache, the commits and the notifications, in their order, of
\* update_file(old) followed by update_file(new) when old is a File, and of
\* update_file(old) followed by a complete check-and-update rooted at new,
\* ending in one commit, one 'commit' and one 'changed', when old is a
\* Folder.
C19_FileMovedIsTwoSteps == [][C19_Return]_vars

\* between the two steps of a move: the row of old is removed and
\* committed, and the committed store is not yet the one the move ends with
C19_Witness ==
  \E t \in Threads :
    /\ InFileMoved(t)
    /\ SecondHalf(t)
    /\ MovedOld(t) = [path |-> "a", kind |-> "File"]
    /\ th[t].pc = "uf_lookup"
    /\ Has(th[t].trace, "commit")
    /\ th[t].snap.files["a"] # NoRow
    /\ disk.files["a"] = NoRow
    /\ disk # TwoStep(th[t].snap, MovedOld(t), MovedNew(t), fs).db

\* ---------------------------------------------------------------- C20
\* C20: when update_file has ended, by returning or by raising ValueError
\* or TypeError, every 'start-update' it emitted has its 'finish-update';
\* a call that raised made no commit and emitted no 'changed'.
C20_MarkersBalanced ==
  \A t \in Threads :
    UpdateFileEnded(t) =>
      /\ Count(th[t].trace, "emit:start-update")
           = Count(th[t].trace, "emit:finish-update")
      /\ th[t].exc # "none" =>
           (~Has(th[t].trace, "commit") /\ ~Has(th[t].trace, "emit:changed"))

====
